---- MODULE Spec2Model ----
(***************************************************************************)
(* State-machine model of deepdeform/layers/embedding_layer.py:            *)
(* LatentEmbedder.embed (two-phase latent optimisation) and                *)
(* LatentEmbedder.retrieve (index query, deformation, scoring).            *)
(*                                                                         *)
(* Numbers are integers.  Latent codes have one component (lat_dims = 1)   *)
(* and are counted in units of 1e-4, so lr = 1e-3 is 10 and the initial    *)
(* draw randn * 1e-4 is a small integer.  Points are triples <<x, y, z>>.   *)
(* Indices of the library are 0-based as in the source; the sequence       *)
(* holding them is 1-based, so entry i lives at position i + 1.            *)
(***************************************************************************)
EXTENDS Integers, Sequences, FiniteSets, TLC

(* ------------------------------ bounds -------------------------------- *)
MaxN == 2         \* largest reference library
MaxNiter == 1     \* largest niter passed to embed
MaxBs == 2        \* largest coarse mini-batch size
MaxTopk == 3      \* largest k passed to embed / retrieve
MaxSeed == 1      \* seeds are 0..MaxSeed
MaxCoord == 1     \* largest x / y coordinate of a point handed to a pure function
RngMod == 16      \* number of states of the modelled generator

(* --------------------------- small helpers ---------------------------- *)
Abs(x) == IF x < 0 THEN -x ELSE x

Sign(x) == IF x < 0 THEN -1 ELSE IF x > 0 THEN 1 ELSE 0

Range(s) == {s[i] : i \in 1..Len(s)}

RECURSIVE SumSeq(_)
SumSeq(s) == IF s = <<>> THEN 0 ELSE Head(s) + SumSeq(Tail(s))

RECURSIVE MinSeq(_)
MinSeq(s) == IF Len(s) = 1 THEN s[1]
             ELSE LET m == MinSeq(Tail(s)) IN IF s[1] <= m THEN s[1] ELSE m

RECURSIVE MaxSeq(_)
MaxSeq(s) == IF Len(s) = 1 THEN s[1]
             ELSE LET m == MaxSeq(Tail(s)) IN IF s[1] >= m THEN s[1] ELSE m

\* torch.mean over a vector, rounded down
Mean(s) == SumSeq(s) \div Len(s)

\* truncating division, keeps the sign of x
DivTrunc(x, d) == Sign(x) * (Abs(x) \div d)

\* largest r with r * r <= x
ISqrt(x) == CHOOSE r \in 0..x : r * r <= x /\ (r + 1) * (r + 1) > x

RemoveAt(s, j) == SubSeq(s, 1, j - 1) \o SubSeq(s, j + 1, Len(s))

RECURSIVE Repeat(_, _)
Repeat(s, n) == IF n = 0 THEN <<>> ELSE s \o Repeat(s, n - 1)

(* --------------------- the torch random generator --------------------- *)
\* torch.manual_seed
ManualSeed(seed) == seed % RngMod

\* the generator's state after one draw
NextRng(r) == (5 * r + 3) % RngMod

\* torch.randn(1, 1) * 1e-4, in units of 1e-4
Randn(r) == (r % 3) - 1

\* torch.randperm applied to a list: the order in which a
\* SubsetRandomSampler yields its indices, as a function of the generator
RECURSIVE Shuffle(_, _)
Shuffle(list, r) ==
    IF list = <<>> THEN <<>>
    ELSE LET j == (r % Len(list)) + 1
         IN <<list[j]>> \o Shuffle(RemoveAt(list, j), NextRng(r))

(* ------------------------ the reference library ----------------------- *)
\* latent code of reference shape i as pretrained (deformer.net.lat_params)
RefLatent(i) == 20 * i

\* x offset of reference shape i
ShapeOffset(i) == ((3 * i) % 4) * 10

\* point_dataset[i]: the cached point sample of shape i (npts = 2)
PointSample(i) == << <<ShapeOffset(i), 0, 0>>, <<ShapeOffset(i) + 4, i, 0>> >>

\* mesh_dataset.get_single(i): (vertices, faces); vertex counts differ
MeshVerts(i) == [j \in 1..(1 + (i % 3)) |-> <<ShapeOffset(i) + 2 * (j - 1), j - 1, 0>>]

MeshFaces(i) == <<i>>

GetSingle(i) == <<MeshVerts(i), MeshFaces(i)>>

\* observations handed to embed / target point sets handed to retrieve
Targets == << << <<15, 0, 0>> >>, << <<5, 0, 0>>, <<45, 1, 0>> >> >>

(* -------------------------- spatial index ----------------------------- *)
\* scipy cKDTree.query on one query row: the k nearest rows, ascending by
\* distance (ties by index); neighbours that do not exist are reported with
\* the index n
RECURSIVE SortByDist(_, _, _)
SortByDist(S, data, q) ==
    IF S = {} THEN <<>>
    ELSE LET m == CHOOSE i \in S : \A j \in S :
                     \/ Abs(data[i + 1] - q) < Abs(data[j + 1] - q)
                     \/ (Abs(data[i + 1] - q) = Abs(data[j + 1] - q) /\ i <= j)
         IN <<m>> \o SortByDist(S \ {m}, data, q)

TreeQuery(data, q, k) ==
    LET n == Len(data)
        order == SortByDist(0..(n - 1), data, q)
    IN [idxs |-> [j \in 1..k |-> IF j <= n THEN order[j] ELSE n],
        \* with k = 1 scipy squeezes the last axis: the result has shape
        \* [batch] instead of [batch, k]
        ndim |-> IF k = 1 THEN 1 ELSE 2]

(* ------------------------ deformation oracle -------------------------- *)
\* deformer(points, [src_latent, 0, tar_latent]): a pure function of its
\* arguments and of the network's weights
Deform(points, src_latent, tar_latent, weights) ==
    [j \in 1..Len(points) |->
        <<points[j][1] + (tar_latent - src_latent) + weights, points[j][2], points[j][3]>>]

(* ------------------------ point-set distance -------------------------- *)
SqDist(a, b) == (a[1] - b[1]) * (a[1] - b[1]) + (a[2] - b[2]) * (a[2] - b[2])
                + (a[3] - b[3]) * (a[3] - b[3])

\* squared distance from point a to its nearest point of B
Nearest(a, B) == MinSeq([j \in 1..Len(B) |-> SqDist(a, B[j])])

\* a distance whose two directions both query the index built on B
ChamferDistOneTree(A, B) ==
    LET accu == [i \in 1..Len(A) |-> Nearest(A[i], B)]
        comp == [j \in 1..Len(B) |-> Nearest(B[j], B)]
    IN [accu |-> accu, comp |-> comp,
        cham |-> (Mean(accu) + Mean(comp)) \div 2]

\* ChamferDistKDTree(reduction='mean') on one batch entry
ChamferDist(A, B) ==
    LET accu == [i \in 1..Len(A) |-> Nearest(A[i], B)]
        comp == [j \in 1..Len(B) |-> Nearest(B[j], A)]
    IN [accu |-> accu, comp |-> comp,
        cham |-> (Mean(accu) + Mean(comp)) \div 2]

\* utils.symmetric_duplication(points, symm_dim=2): the points followed by
\* their mirror images
SymmetricDuplication(points) ==
    points \o [j \in 1..Len(points) |-> <<points[j][1], points[j][2], -points[j][3]>>]

(* ----------------------- losses and optimizers ------------------------ *)
\* LOSSES.keys()
LOSSES == {"l1", "l2", "huber"}

\* OPTIMIZERS.keys()
OPTIMIZERS == {"sgd", "adam", "adadelta", "adagrad", "rmsprop"}

\* LOSSES[loss_type](x, zeros_like(x)), mean-reduced over the batch
\* (SmoothL1Loss: 0.5 x^2 below 1, |x| - 0.5 from 1 on)
Criterion(loss_type, x) ==
    CASE loss_type = "l1" -> Mean([b \in 1..Len(x) |-> Abs(x[b])])
      [] loss_type = "l2" -> Mean([b \in 1..Len(x) |-> x[b] * x[b]])
      [] loss_type = "huber" ->
            Mean([b \in 1..Len(x) |-> IF x[b] = 0 THEN 0 ELSE 2 * Abs(x[b]) - 1]) \div 2

\* the value the loss is taken of, for one deformed shape (lines 152-164)
EmbedScore(deformed, target, matching, sym) ==
    LET d == IF sym
             THEN ChamferDist(SymmetricDuplication(deformed), SymmetricDuplication(target))
             ELSE ChamferDist(deformed, target)
    IN IF matching = "one_way" THEN Mean(d.comp) ELSE d.cham

\* the forward pass of one iteration for the mini-batch idxs (lines 137-149)
ForwardBatch(idxs, z, lats, weights) ==
    [b \in 1..Len(idxs) |-> Deform(PointSample(idxs[b]), lats[idxs[b] + 1], z, weights)]

\* the scalar loss of one iteration as a function of the candidate latent z
BatchLoss(args, idxs, z, lats, weights, sym) ==
    LET deformed == ForwardBatch(idxs, z, lats, weights)
    IN Criterion(args.loss_type,
                 [b \in 1..Len(idxs) |->
                     EmbedScore(deformed[b], Targets[args.points], args.matching, sym)])

\* d loss / d embedded_latents (autograd through the oracle), as a central
\* difference
LatentGrad(args, idxs, z, lats, weights, sym) ==
    BatchLoss(args, idxs, z + 1, lats, weights, sym)
    - BatchLoss(args, idxs, z - 1, lats, weights, sym)

\* torch.nn.utils.clip_grad_value_(embedded_latents, 1.)
ClipGradValue(grad) == IF grad > 1 THEN 1 ELSE IF grad < -1 THEN -1 ELSE grad

\* learning rate set before the refinement phase: 1e-3 (line 197)
FinetuneLr == 10

\* refinement: the top-k list is repeated 10 times, optimize_latent(.., 10)
FinetuneRepeat == 10

FinetuneIters == 10

\* an optimizer constructed over the source latents as well
OptimParamListWithSources == {"embedded_latents", "lat_params"}

\* the tensors the optimizer was constructed over: [embedded_latents]
OptimParamList == {"embedded_latents"}

\* optim.step() on one parameter with gradient grad; returns the new value
\* and the new accumulator (sgd has none; adagrad sums squared gradients)
OptimStep(optim, value, grad) ==
    CASE optim.kind = "sgd" ->
            [value |-> value - optim.lr * grad, state_sum |-> optim.state_sum]
      [] optim.kind = "adagrad" ->
            LET sum == optim.state_sum + grad * grad
            IN [value |-> IF sum = 0 THEN value
                          ELSE value - DivTrunc(optim.lr * grad, ISqrt(sum)),
                state_sum |-> sum]

(* ------------------------------- state -------------------------------- *)
VARIABLES
    lat_params,    \* deformer.net.lat_params: latent code of every reference shape
    tree,          \* self.tree: the rows the cKDTree was built over
    net_params,    \* the oracle's own weights (0 = as pretrained)
    symm,          \* self.symm: deformer.symm_dim is not None
    rng,           \* state of torch's process-wide generator
    tar_latents,   \* deformer.net.tar_latents: 0 = unset, p = the Parameter created by thread p's embed
    training,      \* deformer.training: the train / eval mode flag
    calls,         \* per thread: the embed / retrieve call in progress
    remembered,    \* one completed embed call kept for comparison with later ones
    pure           \* a helper function applied on its own: its inputs and its output

vars == <<lat_params, tree, net_params, symm, rng, tar_latents, training, calls, remembered,
          pure>>

Threads == {1, 2}

\* the state shared by all calls, bundled
Shared == [rng |-> rng, tar_latents |-> tar_latents, training |-> training,
           lat_params |-> lat_params, net_params |-> net_params]

NumShapes == Len(lat_params)

(* ------------------------- the call in progress ----------------------- *)
NoError == [type |-> "", line |-> 0]

NoOptim == [kind |-> "", lr |-> 0, state_sum |-> 0]

NoArgs == [width |-> 0]

\* a thread that is in neither embed nor retrieve
IdleCall ==
    [kind |-> "idle", pc |-> "idle", args |-> NoArgs,
     \* locals of embed / optimize_latent
     embedded_latents |-> 0, optim |-> NoOptim, sampler |-> <<>>, batch_size |-> 0,
     phase |-> "", niter |-> 0, iterating |-> FALSE, loader_iter |-> <<>>,
     batch_idx |-> 0, idxs |-> <<>>, deformed_pts |-> <<>>, loss |-> 0, grad |-> 0,
     \* locals of retrieve
     idxs_ |-> <<>>, orig_meshes |-> <<>>, src_verts |-> <<>>, faces |-> <<>>,
     nv |-> <<>>, deformed_meshes |-> <<>>, dist |-> <<>>,
     \* outcome
     error |-> NoError, result |-> <<>>,
     \* bookkeeping of what the call has done so far
     steps |-> 0, coarse_steps |-> 0, evals |-> 0, queries |-> 0, topk_idxs |-> <<>>]

\* raise: the call is abandoned with an exception of the given type
Raise(c, type, line) == [c EXCEPT !.pc = "failed", !.error = [type |-> type, line |-> line]]

\* embed(...) is entered by thread p
EmbedEnter(args) ==
    [IdleCall EXCEPT !.kind = "embed", !.pc = "e_guard", !.args = args]

(* ------------------------------- embed -------------------------------- *)
\* a guard that lets every batch width through
EmbedGuardOff(c, g) == [c |-> [c EXCEPT !.pc = "e_seed"], g |-> g]

\* lines 76-77
EmbedGuard(c, g) ==
    [c |-> IF c.args.width # 1 THEN Raise(c, "NotImplementedError", 77)
           ELSE [c EXCEPT !.pc = "e_seed"],
     g |-> g]

\* an embed that does not seed the generator
EmbedSeedSkipped(c, g) == [c |-> [c EXCEPT !.pc = "e_check"], g |-> g]

\* line 78
EmbedSeed(c, g) ==
    [c |-> [c EXCEPT !.pc = "e_check"],
     g |-> [g EXCEPT !.rng = ManualSeed(c.args.seed)]]

\* lines 81-86
EmbedCheck(c, g) ==
    [c |-> IF c.args.matching \notin {"one_way", "two_way"} THEN Raise(c, "ValueError", 82)
           ELSE IF c.args.loss_type \notin LOSSES THEN Raise(c, "ValueError", 84)
           ELSE [c EXCEPT !.pc = "e_latent"],
     g |-> g]

\* lines 88-94: the candidate latent is drawn and stored in the deformer
EmbedLatent(p, c, g) ==
    [c |-> [c EXCEPT !.pc = "e_optim", !.embedded_latents = Randn(g.rng)],
     g |-> [g EXCEPT !.rng = NextRng(g.rng), !.tar_latents = p]]

\* lines 98-100
EmbedOptim(c, g) ==
    [c |-> IF c.args.optimizer \notin OPTIMIZERS THEN Raise(c, "ValueError", 99)
           ELSE [c EXCEPT !.pc = "e_loader",
                          !.optim = [kind |-> c.args.optimizer, lr |-> c.args.lr,
                                     state_sum |-> 0]],
     g |-> g]

\* lines 106-112 and the call on line 188
EmbedLoader(c, g) ==
    [c |-> [c EXCEPT !.pc = "o_train", !.phase = "coarse",
                     !.sampler = [j \in 1..Len(g.lat_params) |-> j - 1],
                     !.batch_size = c.args.bs, !.niter = c.args.niter],
     g |-> g]

(* --------------------------- optimize_latent -------------------------- *)
\* lines 116-125
OptTrain(c, g) ==
    [c |-> [c EXCEPT !.pc = "o_next", !.iterating = FALSE, !.batch_idx = 0],
     g |-> [g EXCEPT !.training = TRUE]]

\* where control goes when the loop of optimize_latent is left
AfterLoop(c) == IF c.phase = "coarse" THEN "e_query" ELSE "e_return"

\* line 127: the loop header.  The first time round the loader's iterator is
\* created, which draws the sampler's permutation from the generator; then
\* the next mini-batch is fetched (drop_last: a short rest ends the loop)
OptNext(c, g) ==
    LET order == IF c.iterating THEN c.loader_iter ELSE Shuffle(c.sampler, g.rng)
        g1 == IF c.iterating THEN g ELSE [g EXCEPT !.rng = NextRng(g.rng)]
        c1 == [c EXCEPT !.iterating = TRUE]
        bs == c.batch_size
    IN IF Len(order) < bs
       THEN [c |-> [c1 EXCEPT !.pc = AfterLoop(c), !.loader_iter = order], g |-> g1]
       ELSE LET batch == SubSeq(order, 1, bs)
                rest == SubSeq(order, bs + 1, Len(order))
            IN IF \E b \in 1..bs : batch[b] >= Len(g.lat_params)
               \* point_dataset[i] with i out of range
               THEN [c |-> Raise([c1 EXCEPT !.loader_iter = rest], "IndexError", 127),
                     g |-> g1]
               ELSE [c |-> [c1 EXCEPT !.pc = "o_zero_grad", !.idxs = batch,
                                      !.loader_iter = rest],
                     g |-> g1]

\* lines 130-133
OptZeroGrad(c, g) ==
    [c |-> [c EXCEPT !.pc = "o_forward", !.grad = 0], g |-> g]

\* lines 137-149: the oracle's forward pass
OptForward(c, g) ==
    [c |-> [c EXCEPT !.pc = "o_loss", !.evals = @ + 1,
                     !.deformed_pts = ForwardBatch(c.idxs, c.embedded_latents,
                                                   g.lat_params, g.net_params)],
     g |-> g]

\* lines 152-167
OptLoss(c, g, sym) ==
    [c |-> [c EXCEPT !.pc = "o_backward",
                     !.loss = Criterion(c.args.loss_type,
                                 [b \in 1..Len(c.idxs) |->
                                     EmbedScore(c.deformed_pts[b], Targets[c.args.points],
                                                c.args.matching, sym)])],
     g |-> g]

\* line 169: the oracle's backward pass
OptBackward(c, g, sym) ==
    [c |-> [c EXCEPT !.pc = "o_clip", !.evals = @ + 1,
                     !.grad = @ + LatentGrad(c.args, c.idxs, c.embedded_latents,
                                             g.lat_params, g.net_params, sym)],
     g |-> g]

\* an iteration that goes on to the optimizer step without clipping
OptClipSkipped(c, g) == [c |-> [c EXCEPT !.pc = "o_step"], g |-> g]

\* line 172
OptClip(c, g) ==
    [c |-> [c EXCEPT !.pc = "o_step", !.grad = ClipGradValue(c.grad)], g |-> g]

\* line 174: every tensor the optimizer was constructed over moves against
\* its gradient (the gradient of a source latent is minus the candidate's,
\* because the oracle sees only their difference)
OptStep(c, g) ==
    LET new == OptimStep(c.optim, c.embedded_latents, c.grad)
        moved(v, gr) == OptimStep(c.optim, v, gr).value
    IN [c |-> [c EXCEPT !.pc = "o_test", !.steps = @ + 1,
                        !.coarse_steps = IF c.phase = "coarse" THEN @ + 1 ELSE @,
                        !.embedded_latents =
                            IF "embedded_latents" \in OptimParamList THEN new.value ELSE @,
                        !.optim.state_sum = new.state_sum],
        g |-> [g EXCEPT !.lat_params =
                            IF "lat_params" \in OptimParamList
                            THEN [i \in 1..Len(@) |->
                                     IF i - 1 \in Range(c.idxs) THEN moved(@[i], -c.grad)
                                     ELSE @[i]]
                            ELSE @,
                        !.net_params =
                            IF "net_params" \in OptimParamList THEN moved(@, c.grad) ELSE @]]

\* lines 184-185
OptTest(c, g) ==
    [c |-> IF c.batch_idx >= c.niter THEN [c EXCEPT !.pc = AfterLoop(c)]
           ELSE [c EXCEPT !.pc = "o_next", !.batch_idx = @ + 1],
     g |-> g]

(* ------------------------ embed, second phase ------------------------- *)
\* lines 191-193
EmbedQuery(c, g, index) ==
    LET r == TreeQuery(index, c.embedded_latents, c.args.topk_finetune)
        c1 == [c EXCEPT !.queries = @ + 1]
    IN [c |-> IF r.ndim # 2
              \* bs, k = idxs.shape with a one-dimensional idxs
              THEN Raise(c1, "ValueError", 192)
              ELSE [c1 EXCEPT !.pc = "e_lr", !.idxs_ = r.idxs, !.topk_idxs = r.idxs],
        g |-> g]

\* lines 196-197
EmbedLr(c, g) ==
    [c |-> [c EXCEPT !.pc = "e_loader2", !.optim.lr = FinetuneLr], g |-> g]

\* a refinement loader that still samples the whole library
EmbedLoader2WholeLibrary(c, g) ==
    [c |-> [c EXCEPT !.pc = "o_train", !.phase = "fine",
                     !.sampler = Repeat([j \in 1..Len(g.lat_params) |-> j - 1],
                                        FinetuneRepeat),
                     !.batch_size = c.args.topk_finetune, !.niter = FinetuneIters],
     g |-> g]

\* lines 199-203
EmbedLoader2(c, g) ==
    [c |-> [c EXCEPT !.pc = "o_train", !.phase = "fine",
                     !.sampler = Repeat(c.idxs_, FinetuneRepeat),
                     !.batch_size = c.args.topk_finetune, !.niter = FinetuneIters],
     g |-> g]

\* line 205
EmbedReturn(c, g) ==
    [c |-> [c EXCEPT !.pc = "done", !.result = <<c.embedded_latents>>], g |-> g]

(* ------------------------------ retrieve ------------------------------ *)
\* _padded_verts_from_meshes
PaddedVertsFromMeshes(meshes) ==
    LET verts == [i \in 1..Len(meshes) |-> meshes[i][1]]
        faces == [i \in 1..Len(meshes) |-> meshes[i][2]]
        nv == [i \in 1..Len(meshes) |-> Len(verts[i])]
        max_nv == MaxSeq(nv)
    IN [verts_pad |-> [i \in 1..Len(meshes) |->
                          verts[i] \o [j \in 1..(max_nv - nv[i]) |-> <<0, 0, 0>>]],
        faces |-> faces, nv |-> nv]

\* meshes rebuilt from the padded rows without cutting them back to nv
MeshesUntrimmed(verts_pad, faces, nv) ==
    [i \in 1..Len(verts_pad) |-> <<verts_pad[i], faces[i]>>]

\* _meshes_from_padded_verts
MeshesFromPaddedVerts(verts_pad, faces, nv) ==
    [i \in 1..Len(verts_pad) |-> <<SubSeq(verts_pad[i], 1, nv[i]), faces[i]>>]

\* retrieve(...) is entered
RetrieveEnter(args) ==
    [IdleCall EXCEPT !.kind = "retrieve", !.pc = "r_guard", !.args = args]

\* lines 216-217
RetrieveGuard(c, g) ==
    [c |-> IF c.args.width # 1 THEN Raise(c, "NotImplementedError", 217)
           ELSE [c EXCEPT !.pc = "r_query"],
     g |-> g]

\* lines 218-220
RetrieveQuery(c, g, index) ==
    LET r == TreeQuery(index, c.args.lat, c.args.topk)
        c1 == [c EXCEPT !.queries = @ + 1]
    IN [c |-> IF r.ndim # 2 THEN Raise(c1, "ValueError", 219)
              ELSE [c1 EXCEPT !.pc = "r_latents", !.idxs_ = r.idxs, !.topk_idxs = r.idxs],
        g |-> g]

\* lines 222-230: lat_params[idxs_]
RetrieveLatents(c, g) ==
    [c |-> IF \E j \in 1..Len(c.idxs_) : c.idxs_[j] >= Len(g.lat_params)
           THEN Raise(c, "IndexError", 225)
           ELSE [c EXCEPT !.pc = "r_meshes"],
     g |-> g]

\* lines 233-235
RetrieveMeshes(c, g) ==
    LET orig == [j \in 1..Len(c.idxs_) |-> GetSingle(c.idxs_[j])]
        pad == PaddedVertsFromMeshes(orig)
    IN [c |-> [c EXCEPT !.pc = "r_deform", !.orig_meshes = orig,
                        !.src_verts = pad.verts_pad, !.faces = pad.faces, !.nv = pad.nv],
        g |-> g]

\* lines 236-238: the oracle in no_grad mode, then trimming
RetrieveDeform(c, g) ==
    LET deformed_verts ==
            [j \in 1..Len(c.idxs_) |->
                Deform(c.src_verts[j], g.lat_params[c.idxs_[j] + 1], c.args.lat,
                       g.net_params)]
    IN [c |-> [c EXCEPT !.pc = "r_dist", !.evals = @ + 1,
                        !.deformed_meshes =
                            MeshesFromPaddedVerts(deformed_verts, c.faces, c.nv)],
        g |-> g]

\* lines 245-250: the matching distance of one deformed candidate
RetrieveScore(verts, target, matching) ==
    LET d == ChamferDist(verts, target)
    IN IF matching = "one_way" THEN Mean(d.comp) ELSE d.cham

\* lines 241-250
RetrieveDist(c, g) ==
    [c |-> [c EXCEPT !.pc = "r_return",
                     !.dist = [i \in 1..Len(c.deformed_meshes) |->
                                  RetrieveScore(c.deformed_meshes[i][1],
                                                Targets[c.args.tar], c.args.matching)]],
     g |-> g]

\* lines 253-255
RetrieveReturn(c, g) ==
    [c |-> [c EXCEPT !.pc = "done",
                     !.result = <<c.deformed_meshes, c.orig_meshes, c.dist>>],
     g |-> g]

(* ------------------------------- inputs ------------------------------- *)
BaseEmbedArgs ==
    [width |-> 1, points |-> 1, optimizer |-> "sgd", lr |-> 10, seed |-> 0,
     niter |-> 1, bs |-> 1, matching |-> "one_way", loss_type |-> "l1",
     topk_finetune |-> 2]

EmbedArgs ==
    {[BaseEmbedArgs EXCEPT !.niter = n, !.bs = b] : n \in 0..MaxNiter, b \in 1..MaxBs}
    \cup {[BaseEmbedArgs EXCEPT !.seed = s] : s \in 0..MaxSeed}
    \cup {[BaseEmbedArgs EXCEPT !.topk_finetune = k] : k \in 1..MaxTopk}
    \cup {[BaseEmbedArgs EXCEPT !.width = 2]}
    \cup {[BaseEmbedArgs EXCEPT !.points = t] : t \in 1..Len(Targets)}
    \cup {[BaseEmbedArgs EXCEPT !.optimizer = o] : o \in {"adagrad", "lbfgs"}}
    \cup {[BaseEmbedArgs EXCEPT !.lr = 20]}
    \cup {[BaseEmbedArgs EXCEPT !.matching = m] : m \in {"two_way", "nearest"}}
    \cup {[BaseEmbedArgs EXCEPT !.loss_type = l] : l \in {"l2", "huber", "l3"}}

BaseRetrieveArgs ==
    [width |-> 1, lat |-> 0, tar |-> 1, topk |-> 2, matching |-> "one_way"]

RetrieveArgs ==
    {[BaseRetrieveArgs EXCEPT !.lat = q, !.topk = k] : q \in {0, 50}, k \in 1..MaxTopk}
    \cup {[BaseRetrieveArgs EXCEPT !.width = 2]}
    \cup {[BaseRetrieveArgs EXCEPT !.tar = t] : t \in 1..Len(Targets)}
    \cup {[BaseRetrieveArgs EXCEPT !.matching = m] : m \in {"two_way", "nearest"}}

(* ------------------------------ actions ------------------------------- *)
NothingRemembered == [set |-> FALSE, args |-> NoArgs, result |-> <<>>]

\* no helper function is being applied on its own
NoPure == [op |-> "none", applied |-> FALSE]

\* __init__ (lines 19-23): the index is built over a copy of the latents
Init ==
    /\ \E n \in 1..MaxN : lat_params = [i \in 1..n |-> RefLatent(i - 1)]
    /\ tree = lat_params
    /\ net_params = 0
    /\ symm \in BOOLEAN
    /\ rng = 7
    /\ tar_latents = 0
    /\ training = FALSE
    /\ calls = [p \in Threads |-> IdleCall]
    /\ remembered = NothingRemembered
    /\ pure = NoPure

\* thread p's call advances by r; the shared state becomes r.g
Advance(p, r) ==
    /\ calls' = [calls EXCEPT ![p] = r.c]
    /\ rng' = r.g.rng
    /\ tar_latents' = r.g.tar_latents
    /\ training' = r.g.training
    /\ lat_params' = r.g.lat_params
    /\ net_params' = r.g.net_params
    /\ UNCHANGED <<tree, symm, remembered, pure>>

At(p, label) == calls[p].pc = label

CallEmbedWith(p, argset) ==
    /\ At(p, "idle")
    /\ \E args \in argset : Advance(p, [c |-> EmbedEnter(args), g |-> Shared])

CallRetrieveWith(p, argset) ==
    /\ At(p, "idle")
    /\ \E args \in argset : Advance(p, [c |-> RetrieveEnter(args), g |-> Shared])

CallEmbed(p) == CallEmbedWith(p, EmbedArgs)

CallRetrieve(p) == CallRetrieveWith(p, RetrieveArgs)

DoEmbedGuard(p) == At(p, "e_guard") /\ Advance(p, EmbedGuard(calls[p], Shared))

DoEmbedSeed(p) == At(p, "e_seed") /\ Advance(p, EmbedSeed(calls[p], Shared))

DoEmbedCheck(p) == At(p, "e_check") /\ Advance(p, EmbedCheck(calls[p], Shared))

DoEmbedLatent(p) == At(p, "e_latent") /\ Advance(p, EmbedLatent(p, calls[p], Shared))

DoEmbedOptim(p) == At(p, "e_optim") /\ Advance(p, EmbedOptim(calls[p], Shared))

DoEmbedLoader(p) == At(p, "e_loader") /\ Advance(p, EmbedLoader(calls[p], Shared))

DoOptTrain(p) == At(p, "o_train") /\ Advance(p, OptTrain(calls[p], Shared))

DoOptNext(p) == At(p, "o_next") /\ Advance(p, OptNext(calls[p], Shared))

DoOptZeroGrad(p) == At(p, "o_zero_grad") /\ Advance(p, OptZeroGrad(calls[p], Shared))

DoOptForward(p) == At(p, "o_forward") /\ Advance(p, OptForward(calls[p], Shared))

DoOptLoss(p) == At(p, "o_loss") /\ Advance(p, OptLoss(calls[p], Shared, symm))

DoOptBackward(p) == At(p, "o_backward") /\ Advance(p, OptBackward(calls[p], Shared, symm))

DoOptClip(p) == At(p, "o_clip") /\ Advance(p, OptClip(calls[p], Shared))

DoOptStep(p) == At(p, "o_step") /\ Advance(p, OptStep(calls[p], Shared))

DoOptTest(p) == At(p, "o_test") /\ Advance(p, OptTest(calls[p], Shared))

DoEmbedQuery(p) == At(p, "e_query") /\ Advance(p, EmbedQuery(calls[p], Shared, tree))

DoEmbedLr(p) == At(p, "e_lr") /\ Advance(p, EmbedLr(calls[p], Shared))

DoEmbedLoader2(p) == At(p, "e_loader2") /\ Advance(p, EmbedLoader2(calls[p], Shared))

DoEmbedReturn(p) == At(p, "e_return") /\ Advance(p, EmbedReturn(calls[p], Shared))

DoRetrieveGuard(p) == At(p, "r_guard") /\ Advance(p, RetrieveGuard(calls[p], Shared))

DoRetrieveQuery(p) == At(p, "r_query") /\ Advance(p, RetrieveQuery(calls[p], Shared, tree))

DoRetrieveLatents(p) == At(p, "r_latents") /\ Advance(p, RetrieveLatents(calls[p], Shared))

DoRetrieveMeshes(p) == At(p, "r_meshes") /\ Advance(p, RetrieveMeshes(calls[p], Shared))

DoRetrieveDeform(p) == At(p, "r_deform") /\ Advance(p, RetrieveDeform(calls[p], Shared))

DoRetrieveDist(p) == At(p, "r_dist") /\ Advance(p, RetrieveDist(calls[p], Shared))

DoRetrieveReturn(p) == At(p, "r_return") /\ Advance(p, RetrieveReturn(calls[p], Shared))

\* the caller receives the result or the exception
Finish(p) ==
    /\ calls[p].pc \in {"done", "failed"}
    /\ calls' = [calls EXCEPT ![p] = IdleCall]
    /\ UNCHANGED <<lat_params, tree, net_params, symm, rng, tar_latents, training, remembered,
                   pure>>

\* the same, and the caller keeps the latent of this embed for later comparison
FinishAndRemember(p) ==
    /\ calls[p].pc = "done" /\ calls[p].kind = "embed"
    /\ ~remembered.set
    /\ remembered' = [set |-> TRUE, args |-> calls[p].args, result |-> calls[p].result]
    /\ calls' = [calls EXCEPT ![p] = IdleCall]
    /\ UNCHANGED <<lat_params, tree, net_params, symm, rng, tar_latents, training, pure>>

\* one step of thread p
ThreadStep(p) ==
    \/ CallEmbed(p) \/ CallRetrieve(p)
    \/ DoEmbedGuard(p) \/ DoEmbedSeed(p) \/ DoEmbedCheck(p) \/ DoEmbedLatent(p)
    \/ DoEmbedOptim(p) \/ DoEmbedLoader(p)
    \/ DoOptTrain(p) \/ DoOptNext(p) \/ DoOptZeroGrad(p) \/ DoOptForward(p)
    \/ DoOptLoss(p) \/ DoOptBackward(p) \/ DoOptClip(p) \/ DoOptStep(p) \/ DoOptTest(p)
    \/ DoEmbedQuery(p) \/ DoEmbedLr(p) \/ DoEmbedLoader2(p) \/ DoEmbedReturn(p)
    \/ DoRetrieveGuard(p) \/ DoRetrieveQuery(p) \/ DoRetrieveLatents(p)
    \/ DoRetrieveMeshes(p) \/ DoRetrieveDeform(p) \/ DoRetrieveDist(p)
    \/ DoRetrieveReturn(p)
    \/ Finish(p) \/ FinishAndRemember(p)

\* the program as written: one thread of control, calls one after another
Next == ThreadStep(1)

Spec == Init /\ [][Next]_vars

(* --------------------- two threads on one embedder -------------------- *)
\* a call is blocked in the oracle or in the index query
Suspended(c) == c.pc \in {"o_forward", "o_backward", "e_query", "r_query", "r_deform"}

\* thread p has control: every other thread is outside a call or blocked at
\* a suspension point
HasControl(p) ==
    \A q \in Threads \ {p} :
        calls[q].pc \in {"idle", "done", "failed"} \/ Suspended(calls[q])

ConcEmbedArgs == {[BaseEmbedArgs EXCEPT !.seed = s] : s \in 0..MaxSeed}

ConcRetrieveArgs == {BaseRetrieveArgs}

ConcStep(p) ==
    \/ CallEmbedWith(p, ConcEmbedArgs) \/ CallRetrieveWith(p, ConcRetrieveArgs)
    \/ DoEmbedGuard(p) \/ DoEmbedSeed(p) \/ DoEmbedCheck(p) \/ DoEmbedLatent(p)
    \/ DoEmbedOptim(p) \/ DoEmbedLoader(p)
    \/ DoOptTrain(p) \/ DoOptNext(p) \/ DoOptZeroGrad(p) \/ DoOptForward(p)
    \/ DoOptLoss(p) \/ DoOptBackward(p) \/ DoOptClip(p) \/ DoOptStep(p) \/ DoOptTest(p)
    \/ DoEmbedQuery(p) \/ DoEmbedLr(p) \/ DoEmbedLoader2(p) \/ DoEmbedReturn(p)
    \/ DoRetrieveGuard(p) \/ DoRetrieveQuery(p) \/ DoRetrieveLatents(p)
    \/ DoRetrieveMeshes(p) \/ DoRetrieveDeform(p) \/ DoRetrieveDist(p)
    \/ DoRetrieveReturn(p)

NextConc == \E p \in Threads : HasControl(p) /\ ConcStep(p)

\* a deformer without the symmetry axis; each thread makes one call
InitConc == Init /\ ~symm

SpecConc == InitConc /\ [][NextConc]_vars

\* the statement of embed / retrieve at which call c stands, applied to c
\* and the shared state g
Statement(p, c, g) ==
    CASE c.pc = "e_guard" -> EmbedGuard(c, g)
      [] c.pc = "e_seed" -> EmbedSeed(c, g)
      [] c.pc = "e_check" -> EmbedCheck(c, g)
      [] c.pc = "e_latent" -> EmbedLatent(p, c, g)
      [] c.pc = "e_optim" -> EmbedOptim(c, g)
      [] c.pc = "e_loader" -> EmbedLoader(c, g)
      [] c.pc = "o_train" -> OptTrain(c, g)
      [] c.pc = "o_next" -> OptNext(c, g)
      [] c.pc = "o_zero_grad" -> OptZeroGrad(c, g)
      [] c.pc = "o_forward" -> OptForward(c, g)
      [] c.pc = "o_loss" -> OptLoss(c, g, symm)
      [] c.pc = "o_backward" -> OptBackward(c, g, symm)
      [] c.pc = "o_clip" -> OptClip(c, g)
      [] c.pc = "o_step" -> OptStep(c, g)
      [] c.pc = "o_test" -> OptTest(c, g)
      [] c.pc = "e_query" -> EmbedQuery(c, g, tree)
      [] c.pc = "e_lr" -> EmbedLr(c, g)
      [] c.pc = "e_loader2" -> EmbedLoader2(c, g)
      [] c.pc = "e_return" -> EmbedReturn(c, g)
      [] c.pc = "r_guard" -> RetrieveGuard(c, g)
      [] c.pc = "r_query" -> RetrieveQuery(c, g, tree)
      [] c.pc = "r_latents" -> RetrieveLatents(c, g)
      [] c.pc = "r_meshes" -> RetrieveMeshes(c, g)
      [] c.pc = "r_deform" -> RetrieveDeform(c, g)
      [] c.pc = "r_dist" -> RetrieveDist(c, g)
      [] c.pc = "r_return" -> RetrieveReturn(c, g)

\* the call c run to its end with nothing else touching the shared state
RECURSIVE RunAlone(_, _, _)
RunAlone(p, c, g) ==
    IF c.pc \in {"done", "failed"} THEN c
    ELSE LET r == Statement(p, c, g) IN RunAlone(p, r.c, r.g)

\* what thread p's call returns when it is the only call made on a freshly
\* constructed embedder over the same library
AloneOutcome(p) ==
    LET c == calls[p]
        g == [Shared EXCEPT !.rng = 7, !.tar_latents = 0, !.training = FALSE]
        end == RunAlone(p, IF c.kind = "embed" THEN EmbedEnter(c.args)
                           ELSE RetrieveEnter(c.args), g)
    IN [result |-> end.result, error |-> end.error]

(* ------------------ embed against a larger library ------------------- *)
\* embed calls whose refinement neighbourhood is smaller than, as large as
\* and larger than a library of MaxN + 1 shapes
WideEmbedArgs ==
    {[BaseEmbedArgs EXCEPT !.topk_finetune = k, !.seed = s, !.points = t] :
        k \in 1..(MaxTopk + 1), s \in 0..MaxSeed, t \in 1..Len(Targets)}

InitWide ==
    /\ lat_params = [i \in 1..(MaxN + 1) |-> RefLatent(i - 1)]
    /\ tree = lat_params
    /\ net_params = 0
    /\ symm \in BOOLEAN
    /\ rng = 7
    /\ tar_latents = 0
    /\ training = FALSE
    /\ calls = [p \in Threads |-> IdleCall]
    /\ remembered = NothingRemembered
    /\ pure = NoPure

WideStep(p) ==
    \/ CallEmbedWith(p, WideEmbedArgs)
    \/ DoEmbedGuard(p) \/ DoEmbedSeed(p) \/ DoEmbedCheck(p) \/ DoEmbedLatent(p)
    \/ DoEmbedOptim(p) \/ DoEmbedLoader(p)
    \/ DoOptTrain(p) \/ DoOptNext(p) \/ DoOptZeroGrad(p) \/ DoOptForward(p)
    \/ DoOptLoss(p) \/ DoOptBackward(p) \/ DoOptClip(p) \/ DoOptStep(p) \/ DoOptTest(p)
    \/ DoEmbedQuery(p) \/ DoEmbedLr(p) \/ DoEmbedLoader2(p) \/ DoEmbedReturn(p)
    \/ Finish(p)

NextWide == WideStep(1)

SpecWide == InitWide /\ [][NextWide]_vars

(* ------------------- helper functions on their own -------------------- *)
\* points on the diagonal x = y, at three heights around the mirror plane
Coords == {<<x, x, z>> : x \in 0..MaxCoord, z \in -1..1}

\* point sets of one and of two points
PointSets == {<<a>> : a \in Coords} \cup {<<a, b>> : a \in Coords, b \in Coords}

\* lists of one and of two (vertices, faces) meshes
MeshLists ==
    {<< <<v, <<0>>>> >> : v \in PointSets}
    \cup {<< <<v, <<0>>>>, <<w, <<1>>>> >> : v \in PointSets, w \in PointSets}

\* latent the padded vertices are deformed towards between padding and
\* trimming
PadTrimLatent == 50

\* a one-shape library; one helper function is about to be applied
InitPure ==
    /\ lat_params = <<RefLatent(0)>>
    /\ tree = lat_params
    /\ net_params = 0
    /\ symm = FALSE
    /\ rng = 7
    /\ tar_latents = 0
    /\ training = FALSE
    /\ calls = [p \in Threads |-> IdleCall]
    /\ remembered = NothingRemembered
    /\ \/ \E A \in PointSets, B \in PointSets :
             pure = [op |-> "chamfer_dist", applied |-> FALSE, A |-> A, B |-> B]
       \/ \E A \in PointSets, B \in PointSets, m \in {"one_way", "two_way"}, sym \in BOOLEAN :
             pure = [op |-> "score", applied |-> FALSE, deformed |-> A, target |-> B,
                     matching |-> m, sym |-> sym]
       \/ \E meshes \in MeshLists :
             pure = [op |-> "pad_trim", applied |-> FALSE, meshes |-> meshes]

\* chamfer_dist(A, B) and chamfer_dist(B, A)
ApplyChamferDist ==
    /\ pure.op = "chamfer_dist" /\ ~pure.applied
    /\ pure' = [op |-> "chamfer_dist", applied |-> TRUE, A |-> pure.A, B |-> pure.B,
                out |-> ChamferDist(pure.A, pure.B), rev |-> ChamferDist(pure.B, pure.A)]
    /\ UNCHANGED <<lat_params, tree, net_params, symm, rng, tar_latents, training, calls,
                   remembered>>

\* the value embed takes the loss of (lines 152-164) and the value retrieve
\* appends to dist (lines 245-250), for the same deformed points and target
ApplyScore ==
    /\ pure.op = "score" /\ ~pure.applied
    /\ pure' = [op |-> "score", applied |-> TRUE, deformed |-> pure.deformed,
                target |-> pure.target, matching |-> pure.matching, sym |-> pure.sym,
                embed |-> EmbedScore(pure.deformed, pure.target, pure.matching, pure.sym),
                retrieve |-> RetrieveScore(pure.deformed, pure.target, pure.matching)]
    /\ UNCHANGED <<lat_params, tree, net_params, symm, rng, tar_latents, training, calls,
                   remembered>>

\* lines 234-238: pad, deform the padded vertices, trim
ApplyPadTrim ==
    /\ pure.op = "pad_trim" /\ ~pure.applied
    /\ LET pad == PaddedVertsFromMeshes(pure.meshes)
           deformed_verts == [i \in 1..Len(pure.meshes) |->
                                 Deform(pad.verts_pad[i], RefLatent(i - 1), PadTrimLatent, 0)]
       IN pure' = [op |-> "pad_trim", applied |-> TRUE, meshes |-> pure.meshes,
                   pad |-> pad,
                   trimmed |-> MeshesFromPaddedVerts(pad.verts_pad, pad.faces, pad.nv),
                   deformed |-> MeshesFromPaddedVerts(deformed_verts, pad.faces, pad.nv)]
    /\ UNCHANGED <<lat_params, tree, net_params, symm, rng, tar_latents, training, calls,
                   remembered>>

NextPure == ApplyChamferDist \/ ApplyScore \/ ApplyPadTrim

SpecPure == InitPure /\ [][NextPure]_vars

(* ------------------------------ properties ---------------------------- *)
\* ValueError raised by one of embed's validity checks (the spec's
\* UnsupportedConfigError)
ConfigError(c) == c.error.type = "ValueError" /\ c.error.line \in {82, 84, 99}

\* C1: the distance list returned by retrieve is non-decreasing in rank order
C1_DistancesSorted ==
    \A p \in Threads :
        (calls[p].kind = "retrieve" /\ calls[p].pc = "done")
        => \A i, j \in 1..Len(calls[p].result[3]) :
              i < j => calls[p].result[3][i] <= calls[p].result[3][j]

\* C2: embed / retrieve with batch width 2 fails with NotImplementedError:
\* such a call never gets further than the guard, and none of its steps runs
\* an optimizer step, an oracle call or an index query, or writes the
\* generator, the deformer's target-latent slot or its mode flag
C2_BatchGuard ==
    [][\A p \in Threads :
          calls'[p].args.width = 2
          => /\ calls'[p].pc \in {"e_guard", "r_guard", "failed"}
             /\ calls'[p].pc = "failed" => calls'[p].error.type = "NotImplementedError"
             /\ calls'[p].steps = 0 /\ calls'[p].evals = 0 /\ calls'[p].queries = 0
             /\ UNCHANGED <<rng, tar_latents, training, lat_params, net_params, tree>>]_vars

C2_Witness ==
    \E p \in Threads :
        /\ calls[p].kind = "embed" /\ calls[p].args.width = 2
        /\ calls[p].pc = "failed" /\ calls[p].error.line = 77

\* C3: with k greater than the number of reference latent codes, retrieve
\* (and the index query of embed's refinement phase) fails with
\* InvalidQueryError as soon as the index has been asked
C3_KBound ==
    \A p \in Threads :
        /\ (calls[p].kind = "retrieve" /\ calls[p].args.width = 1
              /\ calls[p].args.topk > NumShapes /\ calls[p].queries > 0)
           => (calls[p].pc = "failed" /\ calls[p].error.type = "InvalidQueryError")
        /\ (calls[p].kind = "embed" /\ calls[p].args.topk_finetune > NumShapes
              /\ calls[p].queries > 0)
           => (calls[p].pc = "failed" /\ calls[p].error.type = "InvalidQueryError")

\* C4: retrieve with k equal to the library size returns every reference
\* entry exactly once
C4_AllEntriesOnce ==
    \A p \in Threads :
        (calls[p].kind = "retrieve" /\ calls[p].args.width = 1
           /\ calls[p].args.topk = NumShapes /\ calls[p].pc \in {"done", "failed"})
        => /\ calls[p].pc = "done"
           /\ Len(calls[p].result[1]) = NumShapes
           /\ Len(calls[p].result[2]) = NumShapes
           /\ \A i \in 0..(NumShapes - 1) :
                 /\ Cardinality({j \in 1..NumShapes :
                                    calls[p].result[1][j][2] = MeshFaces(i)}) = 1
                 /\ Cardinality({j \in 1..NumShapes :
                                    calls[p].result[2][j] = GetSingle(i)}) = 1

\* C5: an embed call returns the latent that an earlier embed call with the
\* same seed, configuration and input returned, whatever ran in between
C5_Determinism ==
    \A p \in Threads :
        (calls[p].kind = "embed" /\ calls[p].pc = "done"
           /\ remembered.set /\ remembered.args = calls[p].args)
        => calls[p].result = remembered.result

C5_Witness ==
    \E p \in Threads :
        /\ calls[p].kind = "embed" /\ calls[p].pc = "done"
        /\ remembered.set /\ remembered.args = calls[p].args
        /\ calls[p].steps > FinetuneIters

\* C6: when the reference set supplies at least niter mini-batches, the
\* coarse phase performs exactly niter optimizer steps
C6_ExactlyNiterSteps ==
    \A p \in Threads :
        (calls[p].kind = "embed" /\ calls[p].phase = "coarse" /\ calls[p].pc = "e_query"
           /\ NumShapes \div calls[p].args.bs >= calls[p].args.niter)
        => calls[p].coarse_steps = calls[p].args.niter

C8_RetrieveChecksMatching ==
    \A p \in Threads :
        (calls[p].kind = "retrieve"
           /\ calls[p].args.matching \notin {"one_way", "two_way"})
        => calls[p].pc # "done"

\* C9: the reference latent codes, the oracle's weights and the rows of the
\* spatial index never change; index i of the index and of the latent
\* matrix denote the same shape
C9_LibraryFrozen ==
    /\ lat_params = [i \in 1..NumShapes |-> RefLatent(i - 1)]
    /\ net_params = 0
    /\ tree = lat_params

C9_Witness ==
    \E p \in Threads :
        /\ calls[p].kind = "embed" /\ calls[p].pc = "done"
        /\ calls[p].steps > FinetuneIters
        /\ calls[p].result[1] \notin {-1, 0, 1}

\* C10: a call that interleaves with another call at the suspension points
\* returns what it returns when run alone
C10_SameAsAlone ==
    \A p \in Threads :
        calls[p].pc \in {"done", "failed"}
        => /\ calls[p].result = AloneOutcome(p).result
           /\ calls[p].error = AloneOutcome(p).error

\* C11: the completeness vector of distance(A, B) is the accuracy vector of
\* distance(B, A), element for element; accuracy[i] is the squared distance
\* from A[i] to its nearest point of B and completeness[j] the squared
\* distance from B[j] to its nearest point of A
C11_DistanceSymmetry ==
    (pure.op = "chamfer_dist" /\ pure.applied)
    => LET A == pure.A
           B == pure.B
       IN /\ pure.out.comp = pure.rev.accu
          /\ Len(pure.out.accu) = Len(A) /\ Len(pure.out.comp) = Len(B)
          /\ \A i \in 1..Len(A) :
                /\ \E j \in 1..Len(B) : pure.out.accu[i] = SqDist(A[i], B[j])
                /\ \A j \in 1..Len(B) : pure.out.accu[i] <= SqDist(A[i], B[j])
          /\ \A j \in 1..Len(B) :
                /\ \E i \in 1..Len(A) : pure.out.comp[j] = SqDist(B[j], A[i])
                /\ \A i \in 1..Len(A) : pure.out.comp[j] <= SqDist(B[j], A[i])

C11_Witness ==
    /\ pure.op = "chamfer_dist" /\ pure.applied
    /\ pure.A = << <<0, 0, 0>> >> /\ pure.B = << <<0, 0, 0>>, <<1, 1, 1>> >>
    /\ pure.out.accu = <<0>> /\ pure.out.comp = <<0, 3>>

\* C12: the score of a deformed shape against the target is the mean of
\* the completeness term under one_way and the symmetric distance under
\* two_way, and retrieve scores the shape with the very value embed feeds to
\* its loss
C12_SameScore ==
    (pure.op = "score" /\ pure.applied)
    => LET d == ChamferDist(pure.deformed, pure.target)
           score == IF pure.matching = "one_way" THEN Mean(d.comp) ELSE d.cham
       IN /\ pure.retrieve = score
          /\ pure.embed = pure.retrieve

\* C13: when niter exceeds the number of mini-batches one pass over the
\* reference set supplies, the coarse phase starts a new pass instead of
\* stopping: it still performs at least niter optimizer steps, also with a
\* library of fewer than bs shapes
C13_ReshuffleWhenExhausted ==
    \A p \in Threads :
        (calls[p].kind = "embed" /\ calls[p].phase = "coarse" /\ calls[p].pc = "e_query"
           /\ NumShapes \div calls[p].args.bs < calls[p].args.niter)
        => calls[p].coarse_steps >= calls[p].args.niter

\* C14: embed queries the index once, after the last coarse step and with
\* the latent the coarse phase ended on; every shape of every refinement
\* mini-batch is one of the indices that query returned
C14_RefinementWithinTopK ==
    [][\A p \in Threads :
          LET c == calls[p]
              d == calls'[p]
              LoopLabels == {"o_zero_grad", "o_forward", "o_loss", "o_backward",
                             "o_clip", "o_step", "o_test"}
          IN /\ (d.kind = "embed" /\ d.queries > c.queries)
                => /\ c.pc = "e_query" /\ c.phase = "coarse" /\ c.queries = 0
                   /\ d.pc = "e_lr"
                      => d.topk_idxs = TreeQuery(tree, c.embedded_latents,
                                                 c.args.topk_finetune).idxs
             /\ (d.kind = "embed" /\ d.phase = "fine")
                => /\ d.queries = 1
                   /\ d.coarse_steps = c.coarse_steps
                   /\ d.topk_idxs = c.topk_idxs
                   /\ d.pc \in LoopLabels => Range(d.idxs) \subseteq Range(d.topk_idxs)]_vars

C14_Witness ==
    \E p \in Threads :
        /\ calls[p].kind = "embed" /\ calls[p].phase = "fine" /\ calls[p].pc = "o_forward"
        /\ calls[p].steps > calls[p].coarse_steps /\ calls[p].coarse_steps > 0
        /\ Cardinality(Range(calls[p].topk_idxs)) < NumShapes

\* C15: whatever learning rate embed was configured with, the learning rate
\* in force during the refinement phase is strictly lower than the one in
\* force during the coarse phase
C15_RefinementLrLower ==
    \A p \in Threads :
        /\ (calls[p].kind = "embed" /\ calls[p].phase = "coarse"
              /\ calls[p].optim.kind # "" /\ calls[p].pc \notin {"e_lr", "e_loader2"})
           => calls[p].optim.lr = calls[p].args.lr
        /\ (calls[p].kind = "embed" /\ calls[p].phase = "fine")
           => calls[p].optim.lr < calls[p].args.lr

\* C16: an iteration of the optimisation loop runs zero-gradient, forward
\* pass, loss, backward pass, clipping and optimizer step in this order; the
\* optimizer step is applied to a gradient already clipped to magnitude at
\* most 1, and the next iteration starts only from the loop header, after
\* that step
C16_IterationOrder ==
    [][\A p \in Threads :
          LET c == calls[p]
              d == calls'[p]
          IN (c.kind = "embed" /\ d.kind = "embed" /\ d # c)
             => /\ c.pc = "o_zero_grad" => (d.pc = "o_forward" /\ d.grad = 0)
                /\ c.pc = "o_forward" => d.pc = "o_loss"
                /\ c.pc = "o_loss" => d.pc = "o_backward"
                /\ c.pc = "o_backward" => d.pc = "o_clip"
                /\ c.pc = "o_clip" => (d.pc = "o_step" /\ Abs(d.grad) <= 1)
                /\ c.pc = "o_step"
                   => /\ d.pc = "o_test" /\ d.steps = c.steps + 1
                      /\ Abs(c.grad) <= 1
                      /\ d.embedded_latents
                            = OptimStep(c.optim, c.embedded_latents, c.grad).value
                /\ d.steps # c.steps => c.pc = "o_step"
                /\ d.embedded_latents # c.embedded_latents => c.pc \in {"e_latent", "o_step"}
                /\ d.pc = "o_zero_grad" => c.pc = "o_next"
                /\ d.pc = "o_next" => c.pc \in {"o_train", "o_test"}]_vars

C16_Witness ==
    \E p \in Threads :
        /\ calls[p].kind = "embed" /\ calls[p].pc = "o_test"
        /\ calls[p].steps >= 2 /\ Abs(calls[p].grad) = 1
        \* the gradient at the latent before this sgd step was larger than 1
        /\ calls[p].optim.kind = "sgd"
        /\ Abs(LatentGrad(calls[p].args, calls[p].idxs,
                          OptimStep(calls[p].optim, calls[p].embedded_latents,
                                    -calls[p].grad).value,
                          lat_params, net_params, symm)) > 1

\* C17: embed draws its randomness from state of its own: no statement of an
\* embed call changes the state of the process-wide generator
C17_AmbientRngUntouched ==
    [][(\E p \in Threads : calls[p].kind = "embed" /\ calls'[p] # calls[p])
         => rng' = rng]_vars

\* C18: padding gives every mesh max(nv) rows, the first nv[i] of them the
\* original vertices in order and the rest zero; trimming the padded array
\* gives back the original meshes with their face lists, and a mesh deformed
\* between padding and trimming keeps its vertex count
C18_PadTrimRoundTrip ==
    (pure.op = "pad_trim" /\ pure.applied)
    => LET m == pure.meshes
           n == Len(m)
           pad == pure.pad
       IN /\ Len(pad.verts_pad) = n /\ Len(pad.nv) = n /\ Len(pad.faces) = n
          /\ \A i \in 1..n :
                /\ pad.nv[i] = Len(m[i][1])
                /\ pad.faces[i] = m[i][2]
                /\ \A k \in 1..n : Len(pad.verts_pad[i]) >= Len(m[k][1])
                /\ \E k \in 1..n : Len(pad.verts_pad[i]) = Len(m[k][1])
                /\ \A r \in 1..Len(pad.verts_pad[i]) :
                      pad.verts_pad[i][r] = IF r <= Len(m[i][1]) THEN m[i][1][r]
                                            ELSE <<0, 0, 0>>
          /\ pure.trimmed = m
          /\ Len(pure.deformed) = n
          /\ \A i \in 1..n :
                /\ Len(pure.deformed[i][1]) = Len(m[i][1])
                /\ pure.deformed[i][2] = m[i][2]

C18_Witness ==
    /\ pure.op = "pad_trim" /\ pure.applied
    /\ Len(pure.meshes) = 2
    /\ Len(pure.meshes[1][1]) < Len(pure.meshes[2][1])
    /\ pure.pad.verts_pad[1][2] = <<0, 0, 0>>
    /\ pure.meshes[1][1][1] # <<0, 0, 0>>

\* C19: for every k from 1 to the library size retrieve succeeds and returns
\* three lists of length k; position i of each refers to the same reference
\* shape: the original is the library's mesh, the candidate is that mesh
\* deformed, and the distance is the candidate's matching distance
C19_AlignedLists ==
    \A p \in Threads :
        (calls[p].kind = "retrieve" /\ calls[p].args.width = 1
           /\ calls[p].args.topk >= 1 /\ calls[p].args.topk <= NumShapes
           /\ calls[p].pc \in {"done", "failed"})
        => /\ calls[p].pc = "done"
           /\ \A l \in 1..3 : Len(calls[p].result[l]) = calls[p].args.topk
           /\ \A i \in 1..calls[p].args.topk :
                 \E s \in 0..(NumShapes - 1) :
                    /\ calls[p].result[2][i] = GetSingle(s)
                    /\ calls[p].result[1][i]
                          = <<Deform(MeshVerts(s), lat_params[s + 1], calls[p].args.lat,
                                     net_params),
                              MeshFaces(s)>>
                    /\ calls[p].result[3][i]
                          = RetrieveScore(calls[p].result[1][i][1],
                                          Targets[calls[p].args.tar],
                                          calls[p].args.matching)

\* C20: for every refinement neighbourhood size k from 1 to the library size
\* and every niter, the refinement phase of embed performs exactly 10
\* optimizer steps on mini-batches of k shapes and ends because the sampler
\* is exhausted, not through the iteration-count test; the call returns
C20_RefinementTenSteps ==
    \A p \in Threads :
        (calls[p].kind = "embed" /\ calls[p].queries > 0
           /\ calls[p].args.topk_finetune >= 1
           /\ calls[p].args.topk_finetune <= NumShapes)
        => /\ calls[p].pc # "failed"
           /\ calls[p].phase = "fine"
              => /\ calls[p].batch_size = calls[p].args.topk_finetune
                 /\ calls[p].steps - calls[p].coarse_steps <= FinetuneIters
                 /\ calls[p].pc \in {"o_zero_grad", "o_forward", "o_loss", "o_backward",
                                     "o_clip", "o_step", "o_test"}
                    => Len(calls[p].idxs) = calls[p].args.topk_finetune
                 /\ calls[p].pc \in {"e_return", "done"}
                    => /\ calls[p].steps - calls[p].coarse_steps = FinetuneIters
                       /\ calls[p].loader_iter = <<>>

====
